---- MODULE Spec2Model ----
(***************************************************************************)
(* Discrete-event simulator of CPU scheduling policies (PROCESS-SIM.py):   *)
(* the Event order, the lazily sorted EventQueue, and the event loops of   *)
(* Simulation.FCFS, Simulation.VRR and Simulation.FEEDBACK.                *)
(*                                                                         *)
(* Spec   : the simulation, started from every process file and scheduler  *)
(*          file within the bounds below.  One step = one iteration of the *)
(*          event loop (peek, pop, transition, dispatcher, clock += 1).    *)
(* QSpec  : the EventQueue alone, under any interleaving of push, pop and  *)
(*          peek, next to an always-sorted reference queue.                *)
(* CfgSpec: Scheduler.__init__ alone, loading every scheduler file within  *)
(*          the bounds, line by line.                                      *)
(***************************************************************************)
EXTENDS Integers, Sequences, FiniteSets, TLC

\* ------------------------------------------------------------------ bounds
MaxBurst == 2       \* CPU bursts last 1 .. MaxBurst
MaxQuantum == 3     \* quantum option: 1 .. MaxQuantum
MaxPrio == 2        \* num_priorities option: 1 .. MaxPrio
MaxQueue == 3       \* QSpec: events held by the queue at once
MaxTime == 1        \* QSpec: event times 0 .. MaxTime
MaxText == 2        \* CfgSpec: option values of 0 .. MaxText characters

\* The process files: three lines (pids 0, 1, 2), arrival at 0 or 2, one CPU
\* burst or CPU, I/O, CPU, with I/O bursts of one tick.
Procs == {0, 1, 2}
ArriveTimes == {0, 2}
IOBursts == {1}
ActivityCounts == {1, 3}

VARIABLES
  schedFile,        \* CfgSpec: the scheduler file: algorithm and option lines
  loader,           \* CfgSpec: Scheduler.__init__ under way: lineNumber, options
  sched,            \* Scheduler: algorithm and options (fixed after load)
  procFile,         \* the parsed process file: arrive time and activities per pid
  processes,        \* the Process objects, by pid
  eventQueue,       \* the EventQueue object: [queue, dirty]
  clock,            \* local clock of the running policy
  ready,            \* FCFS/VRR: list of pids; FEEDBACK: dict level -> list of pids
  auxilary,         \* VRR: list of pids
  blocked,          \* list of pids
  running,          \* list of pids
  prevDispatchTime, \* clock of the latest dispatch, 0 after Block/Exit
  pc,               \* "loop" | "crash" (uncaught exception) | "done" | "queue"
                    \* CfgSpec: "load" | "loaded" | "cfg_error" (ValueError, KeyError)
  trace,            \* the events printed by print(event), in order
  op,               \* QSpec: the latest EventQueue call and its result
  refq              \* QSpec: the always-sorted reference queue

vars == << schedFile, loader, sched, procFile, processes, eventQueue, clock, ready, auxilary,
           blocked, running, prevDispatchTime, pc, trace, op, refq >>

simvars == << schedFile, loader, sched, procFile, processes, clock, ready, auxilary,
              blocked, running, prevDispatchTime, trace >>

\* ------------------------------------------------------------ Event, order
\* Mutant: the ranks of TIMEOUT and BLOCK are exchanged.
Mut_EVENT_TYPE_PRIORITY ==
  [ARRIVE |-> 0, UNBLOCK |-> 1, TIMEOUT |-> 3, BLOCK |-> 2, EXIT |-> 4]

EVENT_TYPE_PRIORITY ==
  [ARRIVE |-> 0, UNBLOCK |-> 1, TIMEOUT |-> 2, BLOCK |-> 3, EXIT |-> 4]

EventTypes == {"ARRIVE", "UNBLOCK", "TIMEOUT", "BLOCK", "EXIT"}

Event(etype, process, time) == [type |-> etype, pid |-> process, time |-> time]

\* Event.__lt__
Lt(self, other) ==
  IF self.time = other.time
    THEN IF self.type = other.type
           THEN self.pid < other.pid
           ELSE EVENT_TYPE_PRIORITY[self.type] < EVENT_TYPE_PRIORITY[other.type]
    ELSE self.time < other.time

\* ------------------------------------------------------------- EventQueue
\* list.sort(reverse=True): a stable sort into descending order that only
\* uses __lt__; x is placed before the first element that is less than x.
RECURSIVE InsertDesc(_, _)
InsertDesc(x, s) ==
  IF s = << >> THEN << x >>
  ELSE IF Lt(Head(s), x) THEN << x >> \o s
  ELSE << Head(s) >> \o InsertDesc(x, Tail(s))

RECURSIVE SortReverse(_)
SortReverse(s) ==
  IF s = << >> THEN << >>
  ELSE InsertDesc(s[Len(s)], SortReverse(SubSeq(s, 1, Len(s) - 1)))

NewEventQueue == [queue |-> << >>, dirty |-> FALSE]

\* Mutant: push forgets to mark the list dirty.
Mut_push(eq, item) == [queue |-> Append(eq.queue, item), dirty |-> eq.dirty]

push(eq, item) == [queue |-> Append(eq.queue, item), dirty |-> TRUE]

\* Mutant: the list is sorted ascending (reverse=True is lost), so that
\* list.pop() takes the latest event.
Mut_prepareLookup(eq) ==
  IF eq.queue = << >> THEN [err |-> TRUE, eq |-> eq]
  ELSE IF eq.dirty
    THEN [err |-> FALSE,
          eq |-> [queue |-> [i \in 1 .. Len(eq.queue) |->
                               SortReverse(eq.queue)[Len(eq.queue) + 1 - i]],
                  dirty |-> FALSE]]
    ELSE [err |-> FALSE, eq |-> eq]

\* EventQueue.__prepareLookup: raises on an empty list before touching anything.
prepareLookup(eq) ==
  IF eq.queue = << >> THEN [err |-> TRUE, eq |-> eq]
  ELSE IF eq.dirty
    THEN [err |-> FALSE, eq |-> [queue |-> SortReverse(eq.queue), dirty |-> FALSE]]
    ELSE [err |-> FALSE, eq |-> eq]

LookupError == [type |-> "LookupError", pid |-> -1, time |-> -1]

\* Mutant: pop of an empty queue clears the dirty flag and returns quietly.
Mut_pop(eq) ==
  LET pl == prepareLookup(eq) IN
  IF pl.err THEN [err |-> FALSE, ret |-> LookupError, eq |-> [pl.eq EXCEPT !.dirty = FALSE]]
  ELSE [err |-> FALSE,
        ret |-> pl.eq.queue[Len(pl.eq.queue)],
        eq  |-> [pl.eq EXCEPT !.queue = SubSeq(@, 1, Len(@) - 1)]]

pop(eq) ==
  LET pl == prepareLookup(eq) IN
  IF pl.err THEN [err |-> TRUE, ret |-> LookupError, eq |-> pl.eq]
  ELSE [err |-> FALSE,
        ret |-> pl.eq.queue[Len(pl.eq.queue)],
        eq  |-> [pl.eq EXCEPT !.queue = SubSeq(@, 1, Len(@) - 1)]]

\* Mutant: peek takes the event out of the list, as pop does.
Mut_peek(eq) == pop(eq)

peek(eq) ==
  LET pl == prepareLookup(eq) IN
  IF pl.err THEN [err |-> TRUE, ret |-> LookupError, eq |-> pl.eq]
  ELSE [err |-> FALSE, ret |-> pl.eq.queue[Len(pl.eq.queue)], eq |-> pl.eq]

empty(eq) == Len(eq.queue) = 0

\* ---------------------------------------------------------------- Process
\* Process.__init__
NewProcess(arrive, activities) ==
  [ activities |-> activities,
    leftOverProcessingTime |-> 0,
    arriveTime |-> arrive,
    serviceTime |-> 0,
    startTime |-> 0,
    touchedCPU |-> FALSE,
    finishTime |-> 0,
    respTimeList |-> << >>,
    lastTimeInReady |-> 0,
    priority |-> 0 ]

getTurnTime(proc) == proc.finishTime - proc.arriveTime

\* list.remove(x): drops the first occurrence (ValueError when absent is
\* handled by the callers below).
RECURSIVE remove(_, _)
remove(s, x) ==
  IF s = << >> THEN << >>
  ELSE IF Head(s) = x THEN Tail(s)
  ELSE << Head(s) >> \o remove(Tail(s), x)

Has(s, x) == \E i \in 1 .. Len(s) : s[i] = x

\* ------------------------------------------------- the loop's working state
\* The locals and objects one loop iteration reads and writes; crash is set
\* when a statement raises (IndexError on activities[0], ValueError on
\* list.remove), after which nothing else of the iteration runs.
Work == [ processes |-> processes, eq |-> eventQueue, ready |-> ready,
          auxilary |-> auxilary, blocked |-> blocked, running |-> running,
          prevDispatchTime |-> prevDispatchTime, crash |-> FALSE ]

Raise(w) == [w EXCEPT !.crash = TRUE]

\* first dispatch of a process: touchedCPU / startTime
Touch(proc, clk) ==
  IF proc.touchedCPU = FALSE
    THEN [proc EXCEPT !.touchedCPU = TRUE, !.startTime = clk]
    ELSE proc

\* Mutant: the dispatch records no response-time sample.
Mut_Sample(proc, clk) == proc

\* respTimeList.append(clock - lastTimeInReady)
Sample(proc, clk) ==
  [proc EXCEPT !.respTimeList = Append(@, clk - proc.lastTimeInReady)]

\* ------------------------------------------------------------------- FCFS
\* Mutant: the BLOCK is scheduled at the burst length, without "+ clock".
Mut_FCFS_ArriveIdle(w, p, clk) ==
  LET cp == w.processes[p]
      w1 == [w EXCEPT !.processes[p] = Sample(Touch(cp, clk), clk),
                      !.prevDispatchTime = clk,
                      !.running = Append(@, p)]
  IN IF cp.activities = << >> THEN Raise(w1)
     ELSE LET nextActivityTime == cp.activities[1] IN
          [w1 EXCEPT !.processes[p].activities = Tail(@),
                     !.eq = push(@, Event("BLOCK", p, nextActivityTime))]

\* Arrive while the processor is idle: dispatch at once, always with a BLOCK.
FCFS_ArriveIdle(w, p, clk) ==
  LET cp == w.processes[p]
      w1 == [w EXCEPT !.processes[p] = Sample(Touch(cp, clk), clk),
                      !.prevDispatchTime = clk,
                      !.running = Append(@, p)]
  IN IF cp.activities = << >> THEN Raise(w1)
     ELSE LET nextActivityTime == cp.activities[1] IN
          [w1 EXCEPT !.processes[p].activities = Tail(@),
                     !.eq = push(@, Event("BLOCK", p, nextActivityTime + clk))]

\* Mutant: an arrival while busy jumps the queue.
Mut_FCFS_ArriveBusy(w, p, clk) ==
  [w EXCEPT !.ready = << p >> \o @,
            !.processes[p].lastTimeInReady = clk]

FCFS_ArriveBusy(w, p, clk) ==
  [w EXCEPT !.ready = Append(@, p),
            !.processes[p].lastTimeInReady = clk]

\* Mutant: the "len(running) == 0" test is lost, every arrival is dispatched.
Mut_FCFS_Arrive(w, p, clk) == FCFS_ArriveIdle(w, p, clk)

FCFS_Arrive(w, p, clk) ==
  IF Len(w.running) = 0
    THEN FCFS_ArriveIdle(w, p, clk)
    ELSE FCFS_ArriveBusy(w, p, clk)

\* Mutant: Block reads the I/O burst but leaves it in the list.
Mut_FCFS_Block(w, p, clk) ==
  IF ~Has(w.running, p) THEN Raise(w)
  ELSE LET w1 == [w EXCEPT !.running = remove(@, p),
                           !.blocked = Append(@, p),
                           !.processes[p].serviceTime = @ + (clk - w.prevDispatchTime),
                           !.prevDispatchTime = 0]
       IN IF w.processes[p].activities = << >> THEN Raise(w1)
          ELSE LET nextActivityTime == w.processes[p].activities[1] IN
               [w1 EXCEPT !.eq = push(@, Event("UNBLOCK", p, nextActivityTime + clk))]

FCFS_Block(w, p, clk) ==
  IF ~Has(w.running, p) THEN Raise(w)
  ELSE LET w1 == [w EXCEPT !.running = remove(@, p),
                           !.blocked = Append(@, p),
                           !.processes[p].serviceTime = @ + (clk - w.prevDispatchTime),
                           !.prevDispatchTime = 0]
       IN IF w.processes[p].activities = << >> THEN Raise(w1)
          ELSE LET nextActivityTime == w.processes[p].activities[1] IN
               [w1 EXCEPT !.processes[p].activities = Tail(@),
                          !.eq = push(@, Event("UNBLOCK", p, nextActivityTime + clk))]

\* Mutant: the process is appended to ready but never removed from blocked.
Mut_FCFS_Unblock(w, p, clk) ==
  LET w1 == [w EXCEPT !.ready = Append(@, p),
                      !.processes[p].lastTimeInReady = clk]
  IN IF ~Has(w.blocked, p) THEN Raise(w1)
     ELSE w1

FCFS_Unblock(w, p, clk) ==
  LET w1 == [w EXCEPT !.ready = Append(@, p),
                      !.processes[p].lastTimeInReady = clk]
  IN IF ~Has(w.blocked, p) THEN Raise(w1)
     ELSE [w1 EXCEPT !.blocked = remove(@, p)]

\* Mutant: serviceTime += clock, the dispatch time is not subtracted.
Mut_FCFS_Exit(w, p, clk) ==
  IF ~Has(w.running, p) THEN Raise(w)
  ELSE [w EXCEPT !.running = remove(@, p),
                 !.processes[p].serviceTime = @ + clk,
                 !.prevDispatchTime = 0,
                 !.processes[p].finishTime = clk]

FCFS_Exit(w, p, clk) ==
  IF ~Has(w.running, p) THEN Raise(w)
  ELSE [w EXCEPT !.running = remove(@, p),
                 !.processes[p].serviceTime = @ + (clk - w.prevDispatchTime),
                 !.prevDispatchTime = 0,
                 !.processes[p].finishTime = clk]

FCFS_Dispatcher(w, clk) ==
  IF Len(w.running) = 0 /\ Len(w.ready) > 0
    THEN LET toRun == w.ready[1]
             w1 == [w EXCEPT !.ready = Tail(@),
                             !.prevDispatchTime = clk,
                             !.running = Append(@, toRun)]
             process == w.processes[toRun]
         IN IF process.activities = << >> THEN Raise(w1)
            ELSE LET nextActivityTime == process.activities[1]
                     rest == Tail(process.activities)
                     w2 == [w1 EXCEPT !.processes[toRun] =
                              [Sample(Touch(process, clk), clk) EXCEPT !.activities = rest]]
                 IN IF Len(rest) # 0
                      THEN [w2 EXCEPT !.eq = push(@, Event("BLOCK", toRun, nextActivityTime + clk))]
                      ELSE [w2 EXCEPT !.eq = push(@, Event("EXIT", toRun, nextActivityTime + clk))]
    ELSE w

\* -------------------------------------------------------------------- VRR
VRR_Arrive(w, p, clk, quantum) ==
  IF Len(w.running) = 0
    THEN LET cp == w.processes[p]
             w1 == [w EXCEPT !.processes[p] = Sample(Touch(cp, clk), clk),
                             !.prevDispatchTime = clk,
                             !.running = Append(@, p)]
         IN IF cp.activities = << >> THEN Raise(w1)
            ELSE LET nextActivityTime == cp.activities[1] IN
                 IF nextActivityTime < quantum
                   THEN [w1 EXCEPT !.processes[p].leftOverProcessingTime = quantum - nextActivityTime,
                                   !.processes[p].activities = Tail(@),
                                   !.eq = push(@, Event("BLOCK", p, nextActivityTime + clk))]
                 ELSE IF nextActivityTime = quantum
                   THEN [w1 EXCEPT !.processes[p].leftOverProcessingTime = 0,
                                   !.processes[p].activities = Tail(@),
                                   !.eq = push(@, Event("BLOCK", p, nextActivityTime + clk))]
                 ELSE [w1 EXCEPT !.processes[p].leftOverProcessingTime = 0,
                                 !.processes[p].activities[1] = nextActivityTime - quantum,
                                 !.eq = push(@, Event("TIMEOUT", p, quantum + clk))]
    ELSE [w EXCEPT !.ready = Append(@, p),
                   !.processes[p].lastTimeInReady = clk]

VRR_Timeout(w, p, clk) ==
  IF ~Has(w.running, p) THEN Raise(w)
  ELSE [w EXCEPT !.running = remove(@, p),
                 !.ready = Append(@, p),
                 !.processes[p].serviceTime = @ + (clk - w.prevDispatchTime),
                 !.processes[p].lastTimeInReady = clk]

VRR_Block(w, p, clk) ==
  IF ~Has(w.running, p) THEN Raise(w)
  ELSE LET w1 == [w EXCEPT !.running = remove(@, p),
                           !.blocked = Append(@, p),
                           !.processes[p].serviceTime = @ + (clk - w.prevDispatchTime),
                           !.prevDispatchTime = 0]
       IN IF w.processes[p].activities = << >> THEN Raise(w1)
          ELSE LET nextActivityTime == w.processes[p].activities[1] IN
               [w1 EXCEPT !.processes[p].activities = Tail(@),
                          !.eq = push(@, Event("UNBLOCK", p, nextActivityTime + clk))]

\* Mutant: an unblocked process always joins the ready queue.
Mut_VRR_Unblock(w, p, clk) ==
  LET w1 == [w EXCEPT !.ready = Append(@, p)]
      w2 == [w1 EXCEPT !.processes[p].lastTimeInReady = clk]
  IN IF ~Has(w.blocked, p) THEN Raise(w2)
     ELSE [w2 EXCEPT !.blocked = remove(@, p)]

VRR_Unblock(w, p, clk) ==
  LET w1 == IF w.processes[p].leftOverProcessingTime # 0
              THEN [w EXCEPT !.auxilary = Append(@, p)]
              ELSE [w EXCEPT !.ready = Append(@, p)]
      w2 == [w1 EXCEPT !.processes[p].lastTimeInReady = clk]
  IN IF ~Has(w.blocked, p) THEN Raise(w2)
     ELSE [w2 EXCEPT !.blocked = remove(@, p)]

VRR_Exit(w, p, clk) ==
  IF ~Has(w.running, p) THEN Raise(w)
  ELSE [w EXCEPT !.running = remove(@, p),
                 !.processes[p].serviceTime = @ + (clk - w.prevDispatchTime),
                 !.prevDispatchTime = 0,
                 !.processes[p].finishTime = clk]

\* Mutant: the dispatcher schedules the Exit or Block but leaves the burst
\* in the list.
Mut_VRR_BlockOrExit(w, toRun, nextActivityTime, clk) ==
  LET rest == Tail(w.processes[toRun].activities)
  IN IF Len(rest) = 0
       THEN [w EXCEPT !.eq = push(@, Event("EXIT", toRun, nextActivityTime + clk))]
       ELSE [w EXCEPT !.eq = push(@, Event("BLOCK", toRun, nextActivityTime + clk))]

\* "BLOCK OR EXIT": pop the CPU burst, then Exit if nothing is left.
VRR_BlockOrExit(w, toRun, nextActivityTime, clk) ==
  LET rest == Tail(w.processes[toRun].activities)
      w1 == [w EXCEPT !.processes[toRun].activities = rest]
  IN IF Len(rest) = 0
       THEN [w1 EXCEPT !.eq = push(@, Event("EXIT", toRun, nextActivityTime + clk))]
       ELSE [w1 EXCEPT !.eq = push(@, Event("BLOCK", toRun, nextActivityTime + clk))]

\* Mutant: the credit Timeout is scheduled a full quantum ahead.
Mut_VRR_SpendCredit(w, toRun, nextActivityTime, clk) ==
  LET L == w.processes[toRun].leftOverProcessingTime
      w1 == IF L < nextActivityTime
              THEN [w EXCEPT !.processes[toRun].activities[1] = nextActivityTime - L,
                             !.eq = push(@, Event("TIMEOUT", toRun, sched.quantum + clk)),
                             !.processes[toRun].leftOverProcessingTime = 0]
              ELSE w
      L1 == w1.processes[toRun].leftOverProcessingTime
  IN IF L1 >= nextActivityTime
       THEN VRR_BlockOrExit(
              [w1 EXCEPT !.processes[toRun].leftOverProcessingTime = L1 - nextActivityTime],
              toRun, nextActivityTime, clk)
       ELSE w1

\* dispatcher, leftOverProcessingTime > 0: two consecutive ifs, the second
\* reads the credit the first may have reset.
VRR_SpendCredit(w, toRun, nextActivityTime, clk) ==
  LET L == w.processes[toRun].leftOverProcessingTime
      w1 == IF L < nextActivityTime
              THEN [w EXCEPT !.processes[toRun].activities[1] = nextActivityTime - L,
                             !.eq = push(@, Event("TIMEOUT", toRun, L + clk)),
                             !.processes[toRun].leftOverProcessingTime = 0]
              ELSE w
      L1 == w1.processes[toRun].leftOverProcessingTime
  IN IF L1 >= nextActivityTime
       THEN VRR_BlockOrExit(
              [w1 EXCEPT !.processes[toRun].leftOverProcessingTime = L1 - nextActivityTime],
              toRun, nextActivityTime, clk)
       ELSE w1

\* Mutant: a burst within the quantum earns the whole quantum as credit.
Mut_VRR_SpendQuantum(w, toRun, nextActivityTime, clk, quantum) ==
  LET w1 == IF nextActivityTime > quantum
              THEN [w EXCEPT !.processes[toRun].activities[1] = nextActivityTime - quantum,
                             !.eq = push(@, Event("TIMEOUT", toRun, quantum + clk))]
              ELSE w
  IN IF nextActivityTime <= quantum
       THEN VRR_BlockOrExit(
              [w1 EXCEPT !.processes[toRun].leftOverProcessingTime = quantum],
              toRun, nextActivityTime, clk)
       ELSE w1

\* dispatcher, leftOverProcessingTime == 0
VRR_SpendQuantum(w, toRun, nextActivityTime, clk, quantum) ==
  LET w1 == IF nextActivityTime > quantum
              THEN [w EXCEPT !.processes[toRun].activities[1] = nextActivityTime - quantum,
                             !.eq = push(@, Event("TIMEOUT", toRun, quantum + clk))]
              ELSE w
  IN IF nextActivityTime <= quantum
       THEN VRR_BlockOrExit(
              [w1 EXCEPT !.processes[toRun].leftOverProcessingTime = quantum - nextActivityTime],
              toRun, nextActivityTime, clk)
       ELSE w1

\* Mutant: the ready queue is served first, auxilary only when it is empty.
Mut_VRR_FromReady(w) == Len(w.ready) > 0

\* "GET FROM AUXILARY OR READY": ready only if auxilary is empty
VRR_FromReady(w) == Len(w.auxilary) = 0

VRR_Dispatcher(w, clk, quantum) ==
  IF Len(w.running) = 0 /\ (Len(w.ready) > 0 \/ Len(w.auxilary) > 0)
    THEN LET fromReady == VRR_FromReady(w)
             toRun == IF fromReady THEN w.ready[1] ELSE w.auxilary[1]
             w1 == [w EXCEPT !.ready = IF fromReady THEN Tail(@) ELSE @,
                             !.auxilary = IF fromReady THEN @ ELSE Tail(@),
                             !.prevDispatchTime = clk,
                             !.running = Append(@, toRun)]
             process == w.processes[toRun]
             w2 == [w1 EXCEPT !.processes[toRun] = Sample(process, clk)]
         IN IF process.activities = << >> THEN Raise(w2)
            ELSE LET nextActivityTime == process.activities[1]
                     w3 == [w2 EXCEPT !.processes[toRun] = Touch(@, clk)]
                 IN IF process.leftOverProcessingTime > 0
                      THEN VRR_SpendCredit(w3, toRun, nextActivityTime, clk)
                    ELSE IF process.leftOverProcessingTime = 0
                      THEN VRR_SpendQuantum(w3, toRun, nextActivityTime, clk, quantum)
                    ELSE w3
    ELSE w

\* --------------------------------------------------------------- FEEDBACK
populateReadyQueues(num_priorities) == [i \in 0 .. (num_priorities - 1) |-> << >>]

\* Mutant: an arrival on an idle processor runs its whole burst, whatever
\* the quantum.
Mut_FEEDBACK_Arrive(w, p, clk, quantum) ==
  IF Len(w.running) = 0
    THEN LET cp == w.processes[p]
             w1 == [w EXCEPT !.processes[p] = Sample(Touch(cp, clk), clk),
                             !.prevDispatchTime = clk,
                             !.running = Append(@, p)]
         IN IF cp.activities = << >> THEN Raise(w1)
            ELSE LET nextActivityTime == cp.activities[1] IN
                 [w1 EXCEPT !.processes[p].activities = Tail(@),
                            !.eq = push(@, Event("BLOCK", p, nextActivityTime + clk))]
    ELSE IF 0 \notin DOMAIN w.ready THEN Raise(w)
    ELSE [w EXCEPT !.ready[0] = Append(@, p),
                   !.processes[p].lastTimeInReady = clk]

FEEDBACK_Arrive(w, p, clk, quantum) ==
  IF Len(w.running) = 0
    THEN LET cp == w.processes[p]
             w1 == [w EXCEPT !.processes[p] = Sample(Touch(cp, clk), clk),
                             !.prevDispatchTime = clk,
                             !.running = Append(@, p)]
         IN IF cp.activities = << >> THEN Raise(w1)
            ELSE LET nextActivityTime == cp.activities[1] IN
                 IF nextActivityTime < quantum \/ nextActivityTime = quantum
                   THEN [w1 EXCEPT !.processes[p].activities = Tail(@),
                                   !.eq = push(@, Event("BLOCK", p, nextActivityTime + clk))]
                   ELSE [w1 EXCEPT !.processes[p].activities[1] = nextActivityTime - quantum,
                                   !.eq = push(@, Event("TIMEOUT", p, quantum + clk))]
    ELSE IF 0 \notin DOMAIN w.ready THEN Raise(w)
    ELSE [w EXCEPT !.ready[0] = Append(@, p),
                   !.processes[p].lastTimeInReady = clk]

\* Mutant: the demotion is not capped at the lowest level.
Mut_FEEDBACK_Timeout(w, p, clk, num_priorities) ==
  IF ~Has(w.running, p) THEN Raise(w)
  ELSE LET prio == w.processes[p].priority + 1
           w1 == [w EXCEPT !.running = remove(@, p),
                           !.processes[p].priority = prio]
       IN IF prio \notin DOMAIN w.ready THEN Raise(w1)
          ELSE [w1 EXCEPT !.ready[prio] = Append(@, p),
                          !.processes[p].serviceTime = @ + (clk - w.prevDispatchTime),
                          !.processes[p].lastTimeInReady = clk]

FEEDBACK_Timeout(w, p, clk, num_priorities) ==
  IF ~Has(w.running, p) THEN Raise(w)
  ELSE LET prio == IF (w.processes[p].priority + 1) # num_priorities
                     THEN w.processes[p].priority + 1
                     ELSE w.processes[p].priority
           w1 == [w EXCEPT !.running = remove(@, p),
                           !.processes[p].priority = prio]
       IN IF prio \notin DOMAIN w.ready THEN Raise(w1)
          ELSE [w1 EXCEPT !.ready[prio] = Append(@, p),
                          !.processes[p].serviceTime = @ + (clk - w.prevDispatchTime),
                          !.processes[p].lastTimeInReady = clk]

\* Mutant: Block forgets to reset the priority.
Mut_FEEDBACK_Block(w, p, clk) ==
  IF ~Has(w.running, p) THEN Raise(w)
  ELSE LET w1 == [w EXCEPT !.running = remove(@, p),
                           !.blocked = Append(@, p),
                           !.processes[p].serviceTime = @ + (clk - w.prevDispatchTime),
                           !.prevDispatchTime = 0]
       IN IF w.processes[p].activities = << >> THEN Raise(w1)
          ELSE LET nextActivityTime == w.processes[p].activities[1] IN
               [w1 EXCEPT !.processes[p].activities = Tail(@),
                          !.eq = push(@, Event("UNBLOCK", p, nextActivityTime + clk))]

FEEDBACK_Block(w, p, clk) ==
  IF ~Has(w.running, p) THEN Raise(w)
  ELSE LET w1 == [w EXCEPT !.running = remove(@, p),
                           !.processes[p].priority = 0,
                           !.blocked = Append(@, p),
                           !.processes[p].serviceTime = @ + (clk - w.prevDispatchTime),
                           !.prevDispatchTime = 0]
       IN IF w.processes[p].activities = << >> THEN Raise(w1)
          ELSE LET nextActivityTime == w.processes[p].activities[1] IN
               [w1 EXCEPT !.processes[p].activities = Tail(@),
                          !.eq = push(@, Event("UNBLOCK", p, nextActivityTime + clk))]

FEEDBACK_Unblock(w, p, clk) ==
  LET w1 == [w EXCEPT !.processes[p].priority = 0]
  IN IF 0 \notin DOMAIN w.ready THEN Raise(w1)
     ELSE LET w2 == [w1 EXCEPT !.ready[0] = Append(@, p),
                               !.processes[p].lastTimeInReady = clk]
          IN IF ~Has(w.blocked, p) THEN Raise(w2)
             ELSE [w2 EXCEPT !.blocked = remove(@, p)]

FEEDBACK_Exit(w, p, clk) ==
  IF ~Has(w.running, p) THEN Raise(w)
  ELSE [w EXCEPT !.running = remove(@, p),
                 !.processes[p].serviceTime = @ + (clk - w.prevDispatchTime),
                 !.prevDispatchTime = 0,
                 !.processes[p].finishTime = clk]

\* Mutant: the scan keeps going and stops at the last non-empty level.
Mut_FirstLevel(rdy, num_priorities) ==
  CHOOSE i \in 0 .. (num_priorities - 1) :
    /\ Len(rdy[i]) > 0
    /\ \A j \in (i + 1) .. (num_priorities - 1) : Len(rdy[j]) = 0

\* the level the dispatcher's scan stops at: the first non-empty one
FirstLevel(rdy, num_priorities) ==
  CHOOSE i \in 0 .. (num_priorities - 1) :
    /\ Len(rdy[i]) > 0
    /\ \A j \in 0 .. (i - 1) : Len(rdy[j]) = 0

FEEDBACK_Dispatcher(w, clk, quantum, num_priorities) ==
  LET readyToRun == \E index \in 0 .. (num_priorities - 1) : Len(w.ready[index]) > 0
  IN IF Len(w.running) = 0 /\ readyToRun
       THEN LET index == FirstLevel(w.ready, num_priorities)
                toRun == w.ready[index][1]
                process == w.processes[toRun]
                w1 == [w EXCEPT !.ready[index] = Tail(@),
                                !.prevDispatchTime = clk,
                                !.running = Append(@, toRun),
                                !.processes[toRun] = Sample(process, clk)]
            IN IF process.activities = << >> THEN Raise(w1)
               ELSE LET nextActivityTime == process.activities[1]
                        w2 == [w1 EXCEPT !.processes[toRun] = Touch(@, clk)]
                        w3 == IF nextActivityTime > quantum
                                THEN [w2 EXCEPT !.processes[toRun].activities[1] = nextActivityTime - quantum,
                                                !.eq = push(@, Event("TIMEOUT", toRun, quantum + clk))]
                                ELSE w2
                    IN IF nextActivityTime <= quantum
                         THEN LET rest == Tail(process.activities)
                                  w4 == [w3 EXCEPT !.processes[toRun].activities = rest]
                              IN IF Len(rest) = 0
                                   THEN [w4 EXCEPT !.eq = push(@, Event("EXIT", toRun, nextActivityTime + clk))]
                                   ELSE [w4 EXCEPT !.eq = push(@, Event("BLOCK", toRun, nextActivityTime + clk))]
                         ELSE w3
       ELSE w

\* the record of an EventQueue call: what the queue returned (ret, err) and
\* what the always-sorted reference returned (refRet, refErr)
NoOp == [name |-> "none", err |-> FALSE, ret |-> LookupError,
         refErr |-> FALSE, refRet |-> LookupError]

\* ------------------------------------------------------------------ inputs
\* Spec and QSpec start after the load: no file, a fresh loader.
NoSchedFile == [algorithm |-> "", lines |-> << >>]
NoOptions == [o \in {} |-> << >>]
NewLoader == [lineNumber |-> 1, options |-> NoOptions]

\* A process line: arrival time, then an odd number of positive durations.
\* Activities alternate CPU, I/O, CPU, ...: odd positions are CPU bursts.
ActivityLists ==
  UNION { { a \in [1 .. n -> (1 .. MaxBurst) \cup IOBursts] :
              \A i \in 1 .. n :
                a[i] \in (IF i % 2 = 1 THEN 1 .. MaxBurst ELSE IOBursts) } :
          n \in ActivityCounts }

ProcessFiles == [Procs -> [arrive : ArriveTimes, activities : ActivityLists]]

SchedulerFiles ==
  { [algorithm |-> "FCFS", quantum |-> 0, num_priorities |-> 0] }
  \cup { [algorithm |-> "VRR", quantum |-> q, num_priorities |-> 0] : q \in 1 .. MaxQuantum }
  \cup { [algorithm |-> "FEEDBACK", quantum |-> q, num_priorities |-> n] :
           q \in 1 .. MaxQuantum, n \in 1 .. MaxPrio }

\* Simulation.__init__: one ARRIVE per process, pushed in pid order.
RECURSIVE InitialEvents(_, _)
InitialEvents(pf, n) ==
  IF n = 0 THEN NewEventQueue
  ELSE push(InitialEvents(pf, n - 1), Event("ARRIVE", n - 1, pf[n - 1].arrive))

Init ==
  /\ schedFile = NoSchedFile
  /\ loader = NewLoader
  /\ sched \in SchedulerFiles
  /\ procFile \in ProcessFiles
  /\ processes = [p \in Procs |-> NewProcess(procFile[p].arrive, procFile[p].activities)]
  /\ eventQueue = InitialEvents(procFile, Cardinality(Procs))
  /\ clock = 0
  /\ ready = IF sched.algorithm = "FEEDBACK"
               THEN populateReadyQueues(sched.num_priorities) ELSE << >>
  /\ auxilary = << >>
  /\ blocked = << >>
  /\ running = << >>
  /\ prevDispatchTime = 0
  /\ pc = "loop"
  /\ trace = << >>
  /\ op = NoOp
  /\ refq = << >>

\* ------------------------------------------------------------ event loop
Transition(ev, w, clk) ==
  LET a == sched.algorithm
      t == ev.type
      p == ev.pid
  IN CASE a = "FCFS" /\ t = "ARRIVE"  -> FCFS_Arrive(w, p, clk)
       [] a = "FCFS" /\ t = "BLOCK"   -> FCFS_Block(w, p, clk)
       [] a = "FCFS" /\ t = "UNBLOCK" -> FCFS_Unblock(w, p, clk)
       [] a = "FCFS" /\ t = "EXIT"    -> FCFS_Exit(w, p, clk)
       [] a = "VRR" /\ t = "ARRIVE"   -> VRR_Arrive(w, p, clk, sched.quantum)
       [] a = "VRR" /\ t = "TIMEOUT"  -> VRR_Timeout(w, p, clk)
       [] a = "VRR" /\ t = "BLOCK"    -> VRR_Block(w, p, clk)
       [] a = "VRR" /\ t = "UNBLOCK"  -> VRR_Unblock(w, p, clk)
       [] a = "VRR" /\ t = "EXIT"     -> VRR_Exit(w, p, clk)
       [] a = "FEEDBACK" /\ t = "ARRIVE"  -> FEEDBACK_Arrive(w, p, clk, sched.quantum)
       [] a = "FEEDBACK" /\ t = "TIMEOUT" -> FEEDBACK_Timeout(w, p, clk, sched.num_priorities)
       [] a = "FEEDBACK" /\ t = "BLOCK"   -> FEEDBACK_Block(w, p, clk)
       [] a = "FEEDBACK" /\ t = "UNBLOCK" -> FEEDBACK_Unblock(w, p, clk)
       [] a = "FEEDBACK" /\ t = "EXIT"    -> FEEDBACK_Exit(w, p, clk)
       [] OTHER -> w

\* Mutant: the FCFS loop has lost its dispatcher block.
Mut_Dispatcher(w, clk) ==
  CASE sched.algorithm = "FCFS" -> w
    [] sched.algorithm = "VRR" -> VRR_Dispatcher(w, clk, sched.quantum)
    [] sched.algorithm = "FEEDBACK" ->
         FEEDBACK_Dispatcher(w, clk, sched.quantum, sched.num_priorities)
    [] OTHER -> w

Dispatcher(w, clk) ==
  CASE sched.algorithm = "FCFS" -> FCFS_Dispatcher(w, clk)
    [] sched.algorithm = "VRR" -> VRR_Dispatcher(w, clk, sched.quantum)
    [] sched.algorithm = "FEEDBACK" ->
         FEEDBACK_Dispatcher(w, clk, sched.quantum, sched.num_priorities)
    [] OTHER -> w

\* One iteration of "while not self.eventQueue.empty()": peek, clock =
\* event.time, then the inner while, whose body runs once (after clock += 1
\* the popped event's time no longer equals the clock).
LoopBody(etype) ==
  /\ pc = "loop"
  /\ ~empty(eventQueue)
  /\ \E pk \in { peek(eventQueue) } :
       /\ pk.ret.type = etype
       /\ \E po \in { pop(pk.eq) } :
          LET clk == pk.ret.time
              event == po.ret
          IN \E w1 \in { Transition(event, [Work EXCEPT !.eq = po.eq], clk) } :
             \E w2 \in { IF w1.crash THEN w1 ELSE Dispatcher(w1, clk) } :
               /\ trace' = Append(trace, pk.ret)
               /\ processes' = w2.processes
               /\ eventQueue' = w2.eq
               /\ ready' = w2.ready
               /\ auxilary' = w2.auxilary
               /\ blocked' = w2.blocked
               /\ running' = w2.running
               /\ prevDispatchTime' = w2.prevDispatchTime
               /\ clock' = IF w2.crash THEN clk ELSE clk + 1
               /\ pc' = IF w2.crash THEN "crash" ELSE "loop"
  /\ UNCHANGED << schedFile, loader, sched, procFile, op, refq >>

FCFS_ARRIVE ==
  /\ sched.algorithm = "FCFS"
  /\ LoopBody("ARRIVE")
FCFS_BLOCK ==
  /\ sched.algorithm = "FCFS"
  /\ LoopBody("BLOCK")
FCFS_UNBLOCK ==
  /\ sched.algorithm = "FCFS"
  /\ LoopBody("UNBLOCK")
FCFS_EXIT ==
  /\ sched.algorithm = "FCFS"
  /\ LoopBody("EXIT")
VRR_ARRIVE ==
  /\ sched.algorithm = "VRR"
  /\ LoopBody("ARRIVE")
VRR_TIMEOUT ==
  /\ sched.algorithm = "VRR"
  /\ LoopBody("TIMEOUT")
VRR_BLOCK ==
  /\ sched.algorithm = "VRR"
  /\ LoopBody("BLOCK")
VRR_UNBLOCK ==
  /\ sched.algorithm = "VRR"
  /\ LoopBody("UNBLOCK")
VRR_EXIT ==
  /\ sched.algorithm = "VRR"
  /\ LoopBody("EXIT")
FEEDBACK_ARRIVE ==
  /\ sched.algorithm = "FEEDBACK"
  /\ LoopBody("ARRIVE")
FEEDBACK_TIMEOUT ==
  /\ sched.algorithm = "FEEDBACK"
  /\ LoopBody("TIMEOUT")
FEEDBACK_BLOCK ==
  /\ sched.algorithm = "FEEDBACK"
  /\ LoopBody("BLOCK")
FEEDBACK_UNBLOCK ==
  /\ sched.algorithm = "FEEDBACK"
  /\ LoopBody("UNBLOCK")
FEEDBACK_EXIT ==
  /\ sched.algorithm = "FEEDBACK"
  /\ LoopBody("EXIT")

\* run(): once the loop has ended, printStatistics divides by serviceTime
\* and by len(respTimeList) for every process.
printStatistics ==
  /\ pc = "loop"
  /\ empty(eventQueue)
  /\ pc' = IF \E p \in Procs : processes[p].serviceTime = 0
                               \/ Len(processes[p].respTimeList) = 0
             THEN "stats_crash" ELSE "done"
  /\ UNCHANGED << simvars, eventQueue, op, refq >>

Next ==
  \/ FCFS_ARRIVE \/ FCFS_BLOCK \/ FCFS_UNBLOCK \/ FCFS_EXIT
  \/ VRR_ARRIVE \/ VRR_TIMEOUT \/ VRR_BLOCK \/ VRR_UNBLOCK \/ VRR_EXIT
  \/ FEEDBACK_ARRIVE \/ FEEDBACK_TIMEOUT \/ FEEDBACK_BLOCK
  \/ FEEDBACK_UNBLOCK \/ FEEDBACK_EXIT
  \/ printStatistics

Spec == Init /\ [][Next]_vars

\* ------------------------------------------- the EventQueue on its own
\* The order of section 4.1, written out on the keys: time, then the rank
\* Arrive 0 < Unblock 1 < Timeout 2 < Block 3 < Exit 4, then pid.
Rank(t) ==
  CASE t = "ARRIVE" -> 0 [] t = "UNBLOCK" -> 1 [] t = "TIMEOUT" -> 2
    [] t = "BLOCK" -> 3 [] t = "EXIT" -> 4 [] OTHER -> 5

Before(a, b) ==
  \/ a.time < b.time
  \/ a.time = b.time /\ Rank(a.type) < Rank(b.type)
  \/ a.time = b.time /\ Rank(a.type) = Rank(b.type) /\ a.pid < b.pid

\* the always-sorted reference: ascending, insertion after equal events
RECURSIVE RefInsert(_, _)
RefInsert(s, x) ==
  IF s = << >> THEN << x >>
  ELSE IF Before(x, Head(s)) THEN << x >> \o s
  ELSE << Head(s) >> \o RefInsert(Tail(s), x)

QPids == {0, 1}

QEvents == { Event(t, p, tm) : t \in EventTypes, p \in QPids, tm \in 0 .. MaxTime }

QInit ==
  /\ schedFile = NoSchedFile
  /\ loader = NewLoader
  /\ sched = [algorithm |-> "FCFS", quantum |-> 0, num_priorities |-> 0]
  /\ procFile = [p \in Procs |-> [arrive |-> 0, activities |-> << 1 >>]]
  /\ processes = [p \in Procs |-> NewProcess(0, << 1 >>)]
  /\ eventQueue = NewEventQueue
  /\ clock = 0
  /\ ready = << >>
  /\ auxilary = << >>
  /\ blocked = << >>
  /\ running = << >>
  /\ prevDispatchTime = 0
  /\ pc = "queue"
  /\ trace = << >>
  /\ op = NoOp
  /\ refq = << >>

QPush ==
  /\ pc = "queue"
  /\ Len(eventQueue.queue) < MaxQueue
  /\ \E item \in QEvents :
       /\ eventQueue' = push(eventQueue, item)
       /\ refq' = RefInsert(refq, item)
       /\ op' = [name |-> "push", err |-> FALSE, ret |-> item,
                 refErr |-> FALSE, refRet |-> item]
  /\ UNCHANGED << simvars, pc >>

QPop ==
  /\ pc = "queue"
  /\ \E r \in { pop(eventQueue) } :
       /\ eventQueue' = r.eq
       /\ op' = [name |-> "pop", err |-> r.err, ret |-> r.ret,
                 refErr |-> (refq = << >>),
                 refRet |-> IF refq = << >> THEN LookupError ELSE Head(refq)]
  /\ refq' = IF refq = << >> THEN refq ELSE Tail(refq)
  /\ UNCHANGED << simvars, pc >>

QPeek ==
  /\ pc = "queue"
  /\ \E r \in { peek(eventQueue) } :
       /\ eventQueue' = r.eq
       /\ op' = [name |-> "peek", err |-> r.err, ret |-> r.ret,
                 refErr |-> (refq = << >>),
                 refRet |-> IF refq = << >> THEN LookupError ELSE Head(refq)]
  /\ refq' = refq
  /\ UNCHANGED << simvars, pc >>

QNext == QPush \/ QPop \/ QPeek

QSpec == QInit /\ [][QNext]_vars

\* ---------------------------------------- Scheduler: loading the .sf file
\* A scheduler file is the algorithm name and the option lines.  A line
\* that re.split('\s*=\s*') cuts into two parts is [option, value], the
\* value being the text after "="; any other line is NoSplit.  Texts are
\* strings over Chars, written as sequences of characters.  The SRT and
\* HRRN option sets (service_given, alpha) have no engine and are left out.
Chars == {"-", "0", "1", "x"}
Texts == UNION { [1 .. n -> Chars] : n \in 0 .. MaxText }
OptionNames == {"quantum", "num_priorities", "service"}
Algorithms == {"FCFS", "VRR", "FEEDBACK", "LOTTERY"}
LineCounts == {0, 1, 2}
NoSplit == [option |-> "", value |-> << "x" >>, parts |-> 1]
OptionLines ==
  { [option |-> o, value |-> v, parts |-> 2] : o \in OptionNames, v \in Texts }
  \cup { NoSplit }
SchedFiles ==
  [algorithm : Algorithms,
   lines : UNION { [1 .. n -> OptionLines] : n \in LineCounts }]

\* the value of a string of decimal digits
RECURSIVE DigitsValue(_)
DigitsValue(d) ==
  IF d = << >> THEN 0
  ELSE 10 * DigitsValue(SubSeq(d, 1, Len(d) - 1))
       + (IF d[Len(d)] = "1" THEN 1 ELSE 0)

\* int(value) of a str: an optional sign, then one or more digits; anything
\* else raises ValueError (err).
int(value) ==
  LET neg == value # << >> /\ value[1] = "-"
      digits == IF neg THEN Tail(value) ELSE value
  IN IF digits # << >> /\ \A i \in 1 .. Len(digits) : digits[i] \in {"0", "1"}
       THEN [err |-> FALSE,
             ret |-> IF neg THEN 0 - DigitsValue(digits) ELSE DigitsValue(digits)]
       ELSE [err |-> TRUE, ret |-> 0]

\* what a check returns: None, or the converted value
None == [none |-> TRUE, ret |-> 0]

\* Scheduler.__checkOption: "try: return int(value) / except: return None".
checkOption(option, value) ==
  IF option = "quantum" \/ option = "num_priorities"
    THEN IF int(value).err THEN None
         ELSE [none |-> FALSE, ret |-> int(value).ret]
    ELSE None

\* Scheduler.__checkAlgorithmOptions: raise is set for the KeyError of
\* algorithmValues['FCFS'], a key the dict does not have.
checkAlgorithmOptions(algorithm, option, value) ==
  LET algorithmValues == [VRR |-> {"quantum"},
                          FEEDBACK |-> {"quantum", "num_priorities"}]
  IN IF algorithm = "FCFS" THEN [raise |-> TRUE, value |-> None]
     ELSE IF algorithm \in {"VRR", "FEEDBACK"} /\ option \in algorithmValues[algorithm]
       THEN [raise |-> FALSE, value |-> checkOption(option, value)]
     ELSE [raise |-> FALSE, value |-> None]

\* Scheduler.__confirmAlgorithm: TRUE when it returns, FALSE when it raises.
confirmAlgorithm(algorithm, options) ==
  \/ algorithm = "FCFS" /\ Cardinality(DOMAIN options) = 0
  \/ algorithm = "VRR" /\ Cardinality(DOMAIN options) = 1
       /\ "quantum" \in DOMAIN options
  \/ algorithm = "FEEDBACK" /\ Cardinality(DOMAIN options) = 2
       /\ "quantum" \in DOMAIN options /\ "num_priorities" \in DOMAIN options

CfgInit ==
  /\ schedFile \in SchedFiles
  /\ loader = NewLoader
  /\ sched = [algorithm |-> schedFile.algorithm, quantum |-> 0, num_priorities |-> 0]
  /\ procFile = [p \in Procs |-> [arrive |-> 0, activities |-> << 1 >>]]
  /\ processes = [p \in Procs |-> NewProcess(0, << 1 >>)]
  /\ eventQueue = NewEventQueue
  /\ clock = 0
  /\ ready = << >>
  /\ auxilary = << >>
  /\ blocked = << >>
  /\ running = << >>
  /\ prevDispatchTime = 0
  /\ pc = "load"
  /\ trace = << >>
  /\ op = NoOp
  /\ refq = << >>

\* One iteration of "for line in lines[1:]" of Scheduler.__init__: the value
\* is checked, the option is stored as its text (split[1]).
Scheduler_line ==
  /\ pc = "load"
  /\ loader.lineNumber <= Len(schedFile.lines)
  /\ LET split == schedFile.lines[loader.lineNumber]
         chk == checkAlgorithmOptions(sched.algorithm, split.option, split.value)
     IN IF split.parts # 2 \/ chk.raise \/ chk.value = None
          THEN /\ pc' = "cfg_error"
               /\ loader' = loader
          ELSE /\ pc' = pc
               /\ loader' =
                    [lineNumber |-> loader.lineNumber + 1,
                     options |-> [o \in DOMAIN loader.options \cup {split.option} |->
                                    IF o = split.option THEN split.value
                                    ELSE loader.options[o]]]
  /\ UNCHANGED << sched, schedFile, procFile, processes, eventQueue, clock, ready,
                  auxilary, blocked, running, prevDispatchTime, trace, op, refq >>

\* After the last line: __confirmAlgorithm, and (pc = "loaded") the options
\* as the engine reads them: int(self.scheduler.options["quantum"]) and
\* int(self.scheduler.options["num_priorities"]).
Scheduler_confirm ==
  /\ pc = "load"
  /\ loader.lineNumber > Len(schedFile.lines)
  /\ IF confirmAlgorithm(sched.algorithm, loader.options)
       THEN /\ pc' = "loaded"
            /\ sched' =
                 [algorithm |-> sched.algorithm,
                  quantum |-> IF sched.algorithm \in {"VRR", "FEEDBACK"}
                                THEN int(loader.options["quantum"]).ret ELSE 0,
                  num_priorities |-> IF sched.algorithm = "FEEDBACK"
                                       THEN int(loader.options["num_priorities"]).ret
                                       ELSE 0]
       ELSE /\ pc' = "cfg_error"
            /\ sched' = sched
  /\ UNCHANGED << schedFile, loader, procFile, processes, eventQueue, clock, ready,
                  auxilary, blocked, running, prevDispatchTime, trace, op, refq >>

CfgNext == Scheduler_line \/ Scheduler_confirm

CfgSpec == CfgInit /\ [][CfgNext]_vars

\* =================================================================== claims
Range(f) == { f[i] : i \in DOMAIN f }

Last(q) == q[Len(q)]

\* the pids waiting in a ready queue (ready, auxilary, or a FEEDBACK level)
ReadyPids ==
  IF sched.algorithm = "FEEDBACK"
    THEN UNION { Range(ready[i]) : i \in DOMAIN ready }
    ELSE Range(ready) \cup Range(auxilary)

\* every event generated so far is pending or has been processed
Pending(p) == { i \in 1 .. Len(eventQueue.queue) : eventQueue.queue[i].pid = p }

Processed(p, etype) ==
  { i \in 1 .. Len(trace) : trace[i].pid = p /\ trace[i].type = etype }

Exited(p) == Processed(p, "EXIT") # {}

ExitsGenerated(p) ==
  Cardinality(Processed(p, "EXIT"))
  + Cardinality({ i \in Pending(p) : eventQueue.queue[i].type = "EXIT" })

LoopEnded == pc \in {"done", "stats_crash"}

RECURSIVE SumCPU(_)
SumCPU(acts) ==
  IF acts = << >> THEN 0
  ELSE acts[1] + (IF Len(acts) <= 2 THEN 0 ELSE SumCPU(SubSeq(acts, 3, Len(acts))))

\* C1: under FCFS, VRR and FEEDBACK the running list holds at most one
\* process id in every reachable state.
C1_SingleProcessor == Len(running) <= 1

\* one process runs while the two others wait in a ready queue
C1_Witness == Len(running) = 1 /\ Cardinality(ReadyPids) = 2

\* C2: for every legal input the event loop ends with an empty event queue
\* and no error, and then every process has received its Exit event.
C2_RunsToCompletion ==
  /\ pc # "crash"
  /\ LoopEnded => /\ empty(eventQueue)
                  /\ \A p \in Procs : Exited(p)

\* C3: exactly one Exit event is generated per process, and once it is
\* generated no further event of that process is pushed.
C3_ExactlyOneExit ==
  \A p \in Procs :
    /\ ExitsGenerated(p) <= 1
    /\ ExitsGenerated(p) = 1 =>
         /\ \A i \in Pending(p) : eventQueue.queue[i].type = "EXIT"
         /\ Exited(p) => Pending(p) = {}
    /\ pc # "loop" => ExitsGenerated(p) = 1

\* C4: the processed events are in the order (time, type rank, pid): every
\* event of a timestamp is processed, in tie-break order, before any event
\* of a later timestamp, and the clock events are processed at never
\* decreases.
C4_TimestampOrder ==
  /\ \A i \in 1 .. (Len(trace) - 1) : Before(trace[i], trace[i + 1])
  /\ trace # << >> =>
       /\ \A i \in 1 .. Len(eventQueue.queue) :
            Before(Last(trace), eventQueue.queue[i])
       /\ pc = "loop" => clock = Last(trace).time + 1

\* two events of one timestamp were processed, of different types, and then
\* an event of a later timestamp
C4_Witness ==
  \E i \in 1 .. (Len(trace) - 2) :
    /\ trace[i].time = trace[i + 1].time
    /\ trace[i].type # trace[i + 1].type
    /\ trace[i + 1].time < trace[i + 2].time

\* number of occurrences of e in the list s
Count(s, e) == Cardinality({ i \in 1 .. Len(s) : s[i] = e })

\* C5: a pop removes and returns the minimum pending event: smallest time,
\* then lowest type rank, then lowest pid.
C5_PopMinimum ==
  [][ (op'.name = "pop" /\ eventQueue.queue # << >>) =>
        /\ ~op'.err
        /\ Count(eventQueue.queue, op'.ret) >= 1
        /\ \A i \in 1 .. Len(eventQueue.queue) :
             ~Before(eventQueue.queue[i], op'.ret)
        /\ \A e \in QEvents :
             Count(eventQueue'.queue, e) =
               Count(eventQueue.queue, e) - (IF e = op'.ret THEN 1 ELSE 0) ]_vars

\* a pop has returned an event while an event of the same time and another
\* type, and an event of the same time and type and another pid, stay behind
C5_Witness ==
  /\ op.name = "pop" /\ ~op.err
  /\ \E i, j \in 1 .. Len(eventQueue.queue) :
       /\ eventQueue.queue[i].time = op.ret.time
       /\ eventQueue.queue[i].type # op.ret.type
       /\ eventQueue.queue[j].time = op.ret.time
       /\ eventQueue.queue[j].type = op.ret.type
       /\ eventQueue.queue[j].pid # op.ret.pid

\* C6: under any interleaving of push, pop and peek the lazily sorted queue
\* returns what an always-sorted queue returns and holds the same events;
\* a peek returns what the next pop would return and removes nothing.
C6_LazyEqualsSorted ==
  /\ op.err = op.refErr
  /\ op.ret = op.refRet
  /\ Len(eventQueue.queue) = Len(refq)
  /\ \A e \in QEvents : Count(eventQueue.queue, e) = Count(refq, e)
  /\ (op.name = "peek" /\ ~op.refErr) =>
       /\ Count(eventQueue.queue, op.ret) >= 1
       /\ pop(eventQueue).ret = op.ret

\* a pop has returned the least of three different events, the two others
\* stay behind in sorted order
C6_Witness ==
  /\ op.name = "pop" /\ ~op.err
  /\ Len(eventQueue.queue) = 2
  /\ ~eventQueue.dirty
  /\ Before(op.ret, eventQueue.queue[2])
  /\ Before(eventQueue.queue[2], eventQueue.queue[1])

\* C7: pop and peek of an empty queue fail with the empty-queue error and
\* leave the list and the dirty flag as they were; a push that follows is
\* returned by the next pop.
C7_EmptyLookupFails ==
  [][ /\ (eventQueue.queue = << >> /\ op'.name \in {"pop", "peek"}) =>
           /\ op'.err
           /\ op'.ret = LookupError
           /\ eventQueue' = eventQueue
      /\ (op.name \in {"pop", "peek"} /\ op.err /\ op'.name = "push") =>
           /\ ~pop(eventQueue').err
           /\ pop(eventQueue').ret = op'.ret
           /\ pop(eventQueue').eq.queue = << >> ]_vars

\* a pop has failed on an empty queue, which is left as it was
C7_Witness ==
  /\ op.name = "pop" /\ op.err
  /\ eventQueue = NewEventQueue
  /\ refq = << >>

\* C8: under VRR the serviceTime of a process that has exited is the sum of
\* its original CPU bursts.
C8_VRRLossless ==
  sched.algorithm = "VRR" =>
    \A p \in Procs :
      Exited(p) => processes[p].serviceTime = SumCPU(procFile[p].activities)

\* a process has exited under VRR after a Timeout that ended a run on
\* leftover credit (with quantum 3 no burst exceeds the quantum)
C8_Witness ==
  /\ sched.algorithm = "VRR"
  /\ sched.quantum > MaxBurst
  /\ \E p \in Procs : Exited(p) /\ Processed(p, "TIMEOUT") # {}

\* C9: at the end of the simulation every process has finishTime >=
\* arrivalTime and serviceTime <= finishTime - arrivalTime.
C9_TurnaroundBound ==
  \A p \in Procs :
    (LoopEnded \/ Exited(p)) =>
      /\ processes[p].finishTime >= processes[p].arriveTime
      /\ processes[p].serviceTime <= getTurnTime(processes[p])

\* the simulation has ended with a process that arrived late and waited
C9_Witness ==
  /\ pc = "done"
  /\ \E p \in Procs :
       /\ processes[p].arriveTime > 0
       /\ processes[p].serviceTime < getTurnTime(processes[p])

\* the CPU burst the running process was dispatched with: the activity
\* popped last from its list
DispatchedBurst(p) ==
  procFile[p].activities[Len(procFile[p].activities) - Len(processes[p].activities)]

\* C10: under FCFS no Timeout event is generated, and a dispatched process
\* keeps the processor for its whole CPU burst: its next event is at the
\* dispatch time plus the burst, and the processor changes hands only when
\* that event is processed.
C10_FCFSNonPreemptive ==
  /\ [](sched.algorithm = "FCFS" =>
          /\ \A i \in 1 .. Len(eventQueue.queue) : eventQueue.queue[i].type # "TIMEOUT"
          /\ \A i \in 1 .. Len(trace) : trace[i].type # "TIMEOUT"
          /\ \A p \in Procs :
               (pc = "loop" /\ running = << p >>) =>
                 /\ Cardinality(Pending(p)) = 1
                 /\ \A i \in Pending(p) :
                      /\ eventQueue.queue[i].type \in {"BLOCK", "EXIT"}
                      /\ eventQueue.queue[i].time = prevDispatchTime + DispatchedBurst(p))
  /\ [][ (sched.algorithm = "FCFS" /\ Len(running) = 1 /\ running' # running) =>
           /\ Last(trace').pid = running[1]
           /\ Last(trace').type \in {"BLOCK", "EXIT"}
           /\ Last(trace').time = prevDispatchTime + DispatchedBurst(running[1]) ]_vars

\* under FCFS a process is in the middle of a burst of 2 while another
\* event has been processed after its dispatch and a process waits
C10_Witness ==
  /\ sched.algorithm = "FCFS"
  /\ pc = "loop"
  /\ Len(running) = 1
  /\ Len(ready) >= 1
  /\ clock - 1 > prevDispatchTime

C12_BlockUnblockResetPriority ==
  [][ (sched.algorithm = "FEEDBACK" /\ Last(trace').type \in {"BLOCK", "UNBLOCK"}) =>
        LET p == Last(trace').pid IN
        /\ processes'[p].priority = 0
        /\ (Last(trace').type = "UNBLOCK" /\ pc' = "loop") =>
             /\ \A i \in DOMAIN ready' : i # 0 => ~Has(ready'[i], p)
             /\ \/ ready'[0] = Append(ready[0], p)
                \/ /\ running = << >>
                   /\ running' = << p >>
                   /\ \A i \in DOMAIN ready : ready[i] = << >>
                   /\ ready' = ready ]_vars

\* a process that was demoted to level 1 by a Timeout and then blocked has
\* been unblocked behind another process: it waits at level 0, priority 0
C12_Witness ==
  /\ sched.algorithm = "FEEDBACK"
  /\ sched.num_priorities = 2
  /\ trace # << >>
  /\ Last(trace).type = "UNBLOCK"
  /\ Processed(Last(trace).pid, "TIMEOUT") # {}
  /\ Has(ready[0], Last(trace).pid)
  /\ processes[Last(trace).pid].priority = 0

\* the clock at which process p most recently became ready: the time of its
\* latest ARRIVE, UNBLOCK or TIMEOUT among the processed events tr
ReadyTime(p, tr) ==
  LET I == { i \in 1 .. Len(tr) :
               tr[i].pid = p /\ tr[i].type \in {"ARRIVE", "UNBLOCK", "TIMEOUT"} }
  IN tr[CHOOSE i \in I : \A j \in I : j <= i].time

\* C13: under every policy a response-time sample equals the dispatch clock
\* minus the clock at which the process most recently became ready (its
\* arrival, Unblock or Timeout); a process dispatched at the instant it
\* arrives or becomes ready records 0, whatever its arrival time.
C13_ResponseSample ==
  [][ \A p \in Procs :
        Len(processes'[p].respTimeList) > Len(processes[p].respTimeList) =>
          /\ Len(processes'[p].respTimeList) = Len(processes[p].respTimeList) + 1
          /\ Last(processes'[p].respTimeList) =
               Last(trace').time - ReadyTime(p, trace')
          /\ Last(trace').pid = p /\ Last(trace').type \in {"ARRIVE", "UNBLOCK", "TIMEOUT"}
               => Last(processes'[p].respTimeList) = 0 ]_vars

\* the dispatches of process p so far: every dispatch that is over has ended
\* with a BLOCK, TIMEOUT or EXIT event, and one is under way if p is running
Dispatches(p) ==
  Cardinality(Processed(p, "BLOCK")) + Cardinality(Processed(p, "TIMEOUT"))
  + Cardinality(Processed(p, "EXIT")) + (IF Has(running, p) THEN 1 ELSE 0)

\* C14: every process that reaches Exit has serviceTime > 0 and at least one
\* response-time sample, exactly one sample being recorded per dispatch, so
\* that printStatistics divides neither by serviceTime = 0 nor by an empty
\* respTimeList.
C14_StatisticsDefined ==
  /\ \A p \in Procs :
       /\ Len(processes[p].respTimeList) = Dispatches(p)
       /\ Exited(p) => /\ processes[p].serviceTime > 0
                       /\ Len(processes[p].respTimeList) >= 1
  /\ pc # "stats_crash"

\* the statistics have been printed for a run in which a process was
\* dispatched three times (two CPU bursts, one of them cut by a Timeout)
C14_Witness ==
  /\ pc = "done"
  /\ \E p \in Procs :
       /\ Exited(p)
       /\ Len(processes[p].respTimeList) = 3
       /\ processes[p].serviceTime = SumCPU(procFile[p].activities)

\* C15: loading the configuration rejects, before the simulation starts, a
\* VRR or FEEDBACK quantum and a FEEDBACK num_priorities that is not a
\* positive integer (zero and negative values included): a load that
\* succeeds hands the engine a quantum > 0 and a num_priorities > 0.
C15_RejectsNonPositive ==
  pc = "loaded" =>
    /\ sched.algorithm \in {"VRR", "FEEDBACK"} =>
         /\ ~int(loader.options["quantum"]).err
         /\ sched.quantum > 0
    /\ sched.algorithm = "FEEDBACK" =>
         /\ ~int(loader.options["num_priorities"]).err
         /\ sched.num_priorities > 0

\* C16: at every dispatch site of every policy (Arrive while idle and the
\* ready-queue dispatcher), when the dispatched CPU burst is consumed in
\* full the engine schedules Exit if the remaining-burst sequence has become
\* empty, and Block otherwise: the BLOCK or EXIT pending for the running
\* process is an EXIT exactly when the process has no activity left.
C16_ExitIffLastBurst ==
  \A p \in Procs :
    (pc = "loop" /\ running = << p >>) =>
      \A i \in Pending(p) :
        eventQueue.queue[i].type \in {"BLOCK", "EXIT"} =>
          (eventQueue.queue[i].type = "EXIT" <=> processes[p].activities = << >>)

\* p is dispatched in this step: one more response-time sample
DispatchedIn(p) ==
  Len(processes'[p].respTimeList) > Len(processes[p].respTimeList)

\* the events pending for p after this step
NextPending(p) ==
  { eventQueue'.queue[i] : i \in { j \in 1 .. Len(eventQueue'.queue) :
                                     eventQueue'.queue[j].pid = p } }

\* C17: under VRR a process dispatched with credit L = 0, quantum Q and
\* remaining CPU burst b: b < Q gives credit Q - b and a Block or Exit at
\* clock + b; b = Q gives credit 0 and a Block or Exit at clock + b; b > Q
\* gives credit 0, a Timeout at clock + Q and a remaining burst of b - Q.
\* A process whose Timeout is processed goes to the tail of the normal
\* ready queue (from where the dispatcher of the same iteration may take
\* it), never to the auxiliary queue.
C17_VRRFreshQuantum ==
  [][ sched.algorithm = "VRR" /\ pc' = "loop" =>
        /\ \A p \in Procs :
             (DispatchedIn(p) /\ processes[p].leftOverProcessingTime = 0) =>
               LET Q == sched.quantum
                   b == processes[p].activities[1]
                   clk == Last(trace').time
               IN /\ Cardinality(NextPending(p)) = 1
                  /\ b < Q =>
                       /\ processes'[p].leftOverProcessingTime = Q - b
                       /\ processes'[p].activities = Tail(processes[p].activities)
                       /\ \A e \in NextPending(p) :
                            e.type \in {"BLOCK", "EXIT"} /\ e.time = clk + b
                  /\ b = Q =>
                       /\ processes'[p].leftOverProcessingTime = 0
                       /\ processes'[p].activities = Tail(processes[p].activities)
                       /\ \A e \in NextPending(p) :
                            e.type \in {"BLOCK", "EXIT"} /\ e.time = clk + b
                  /\ b > Q =>
                       /\ processes'[p].leftOverProcessingTime = 0
                       /\ processes'[p].activities =
                            << b - Q >> \o Tail(processes[p].activities)
                       /\ \A e \in NextPending(p) :
                            e.type = "TIMEOUT" /\ e.time = clk + Q
        /\ (Len(trace') > Len(trace) /\ Last(trace').type = "TIMEOUT") =>
             LET p == Last(trace').pid IN
             /\ ~Has(auxilary', p)
             /\ ready' \in {Append(ready, p), Tail(Append(ready, p))}
             /\ running' = << p >> => ready = << >> /\ auxilary = << >> ]_vars

\* under VRR the dispatcher has just taken a process that had waited in the
\* ready queue since its arrival; its burst is shorter than the quantum and
\* it runs with the credit quantum - burst
C17_Witness ==
  /\ sched.algorithm = "VRR"
  /\ pc = "loop"
  /\ \E p \in Procs :
       /\ running = << p >>
       /\ prevDispatchTime = clock - 1
       /\ processes[p].respTimeList # << >>
       /\ Last(processes[p].respTimeList) > 0
       /\ processes[p].startTime = prevDispatchTime
       /\ processes[p].startTime > processes[p].arriveTime
       /\ processes[p].leftOverProcessingTime = sched.quantum - procFile[p].activities[1]
       /\ processes[p].leftOverProcessingTime > 0

C19_AuxiliaryFirst ==
  [][ (sched.algorithm = "VRR" /\ pc' = "loop" /\ Len(trace') > Len(trace)) =>
        LET e == Last(trace').pid
            t == Last(trace').type
        IN /\ \A r \in Procs :
                (DispatchedIn(r) /\ ~(t = "ARRIVE" /\ e = r)) =>
                  /\ running' = << r >>
                  /\ auxilary # << >> =>
                       /\ r = Head(auxilary)
                       /\ auxilary' \in {Tail(auxilary), Append(Tail(auxilary), e)}
                       /\ ready' \in {ready, Append(ready, e)}
                  /\ auxilary = << >> =>
                       /\ auxilary' = << >>
                       /\ \/ r = e /\ ready' = ready
                          \/ /\ ready # << >>
                             /\ r = Head(ready)
                             /\ ready' \in {Tail(ready), Append(Tail(ready), e)}
           /\ (t \in {"BLOCK", "EXIT", "TIMEOUT"} /\ auxilary # << >> /\ ready # << >>) =>
                /\ running' = << Head(auxilary) >>
                /\ DispatchedIn(Head(auxilary)) ]_vars

\* the processor was freed in the latest step and went to a process that
\* had been unblocked with credit, although a process that became ready
\* earlier still waits in the ready queue
C19_Witness ==
  /\ sched.algorithm = "VRR"
  /\ pc = "loop"
  /\ trace # << >>
  /\ Last(trace).type \in {"BLOCK", "EXIT", "TIMEOUT"}
  /\ \E r \in Procs :
       /\ running = << r >>
       /\ r # Last(trace).pid
       /\ prevDispatchTime = Last(trace).time
       /\ Processed(r, "UNBLOCK") # {}
       /\ ready # << >>
       /\ processes[Head(ready)].lastTimeInReady < processes[r].lastTimeInReady
       /\ Head(ready) # Last(trace).pid

\* a queue after its head, if it has one, was taken
Rest(s) == IF s = << >> THEN s ELSE Tail(s)

\* C20: under VRR an unblocked process is enqueued to auxilary if its
\* leftover credit is > 0 and to the normal ready queue otherwise (the
\* dispatcher of the same iteration may then take the head of the queue);
\* consequently, in every reachable state, every process waiting in
\* auxilary has credit > 0 and every process waiting in ready has credit 0.
C20_QueueByCredit ==
  /\ [](sched.algorithm = "VRR" =>
          /\ \A i \in 1 .. Len(auxilary) :
               processes[auxilary[i]].leftOverProcessingTime > 0
          /\ \A i \in 1 .. Len(ready) :
               processes[ready[i]].leftOverProcessingTime = 0)
  /\ [][ (sched.algorithm = "VRR" /\ pc' = "loop"
            /\ Len(trace') > Len(trace) /\ Last(trace').type = "UNBLOCK") =>
           LET e == Last(trace').pid IN
           IF processes[e].leftOverProcessingTime > 0
             THEN /\ auxilary' \in {Append(auxilary, e), Tail(Append(auxilary, e))}
                  /\ ready' = ready
                  /\ ~Has(ready', e)
             ELSE /\ ready' \in {Append(ready, e), Tail(Append(ready, e))}
                  /\ auxilary' \in {auxilary, Rest(auxilary)}
                  /\ ~Has(auxilary', e) ]_vars

\* a process unblocked with credit waits in auxilary while a process that
\* was unblocked without credit waits in ready
C20_Witness ==
  /\ sched.algorithm = "VRR"
  /\ pc = "loop"
  /\ \E p, q \in Procs :
       /\ Has(auxilary, p)
       /\ processes[p].leftOverProcessingTime > 0
       /\ Has(ready, q)
       /\ Processed(q, "UNBLOCK") # {}
       /\ processes[q].leftOverProcessingTime = 0

\* C21: under FEEDBACK a process dispatched from the ready queues is the
\* head of the lowest-numbered non-empty level: in a step that processes
\* the event of process e and dispatches r from a queue there is a level k
\* that loses its head r (or that was empty, received e and gave it back at
\* once, r = e), every level above it (index < k) is empty afterwards, and
\* every other level keeps its processes in order, e at most joining a tail.
C21_FeedbackStrictPriority ==
  [][ (sched.algorithm = "FEEDBACK" /\ pc' = "loop" /\ Len(trace') > Len(trace)) =>
        LET e == Last(trace').pid
            t == Last(trace').type
        IN \A r \in Procs :
             (DispatchedIn(r) /\ ~(t = "ARRIVE" /\ e = r)) =>
               /\ running' = << r >>
               /\ \E k \in DOMAIN ready :
                    /\ \/ /\ ready[k] # << >>
                          /\ r = Head(ready[k])
                          /\ ready'[k] \in {Tail(ready[k]), Append(Tail(ready[k]), e)}
                       \/ /\ ready[k] = << >>
                          /\ r = e
                          /\ ready'[k] = << >>
                    /\ \A i \in DOMAIN ready : i < k => ready'[i] = << >>
                    /\ \A j \in DOMAIN ready :
                         j # k => ready'[j] \in {ready[j], Append(ready[j], e)} ]_vars

\* the processor was freed in the latest step and went to the head of level
\* 0, although a process at level 1 has been waiting for longer
C21_Witness ==
  /\ sched.algorithm = "FEEDBACK"
  /\ sched.num_priorities = 2
  /\ pc = "loop"
  /\ trace # << >>
  /\ Last(trace).type \in {"BLOCK", "EXIT", "TIMEOUT"}
  /\ \E r \in Procs :
       /\ running = << r >>
       /\ r # Last(trace).pid
       /\ prevDispatchTime = Last(trace).time
       /\ processes[r].priority = 0
       /\ ready[1] # << >>
       /\ processes[Head(ready[1])].lastTimeInReady < processes[r].lastTimeInReady
       /\ Head(ready[1]) # Last(trace).pid

\* the smaller of two integers
Min(a, b) == IF a < b THEN a ELSE b

\* C22: under FEEDBACK a Timeout sets the priority of the preempted process
\* to min(priority + 1, num_priorities - 1) and appends the process to the
\* FIFO of exactly that level (the dispatcher of the same iteration may
\* take the head of that FIFO); a waiting process is always in the FIFO
\* whose index is its priority, and a priority changes only when an event of
\* the process itself is processed, so not between dispatch and Timeout.
C22_TimeoutDemotes ==
  /\ [](sched.algorithm = "FEEDBACK" =>
          \A i \in DOMAIN ready : \A n \in 1 .. Len(ready[i]) :
            processes[ready[i][n]].priority = i)
  /\ [][ (sched.algorithm = "FEEDBACK" /\ Len(trace') > Len(trace)) =>
           LET e == Last(trace').pid
               t == Last(trace').type
               new == Min(processes[e].priority + 1, sched.num_priorities - 1)
           IN /\ t = "TIMEOUT" =>
                   /\ processes'[e].priority = new
                   /\ pc' = "loop"
                   /\ ready'[new] \in {Append(ready[new], e), Tail(Append(ready[new], e))}
                   /\ \A j \in DOMAIN ready : j # new => ~Has(ready'[j], e)
              /\ \A p \in Procs :
                   processes'[p].priority # processes[p].priority =>
                     p = e /\ t \in {"TIMEOUT", "BLOCK", "UNBLOCK"} ]_vars

\* a Timeout has demoted a process from level 0 to level 1, where it waits
\* behind nobody while another process runs
C22_Witness ==
  /\ sched.algorithm = "FEEDBACK"
  /\ sched.num_priorities = 2
  /\ pc = "loop"
  /\ trace # << >>
  /\ Last(trace).type = "TIMEOUT"
  /\ processes[Last(trace).pid].priority = 1
  /\ Has(ready[1], Last(trace).pid)
  /\ Len(running) = 1

\* the event by which process p most recently became ready: its latest
\* ARRIVE, UNBLOCK or TIMEOUT among the processed events tr
ReadyEvent(p, tr) ==
  LET I == { i \in 1 .. Len(tr) :
               tr[i].pid = p /\ tr[i].type \in {"ARRIVE", "UNBLOCK", "TIMEOUT"} }
  IN tr[CHOOSE i \in I : \A j \in I : j <= i]

\* C23: under FCFS the ready queue is served FIFO by time of readiness: a
\* process dispatched from the queue became ready strictly before every
\* process it leaves waiting, or at the same time and with a lower pid.
C23_FCFSFifoTieByPid ==
  [][ (sched.algorithm = "FCFS" /\ pc' = "loop" /\ Len(trace') > Len(trace)) =>
        \A r \in Procs :
          (DispatchedIn(r) /\ ~(Last(trace').type = "ARRIVE" /\ Last(trace').pid = r)) =>
            \A n \in 1 .. Len(ready') :
              LET q == ready'[n] IN
              \/ ReadyTime(r, trace') < ReadyTime(q, trace')
              \/ ReadyTime(r, trace') = ReadyTime(q, trace') /\ r < q ]_vars

\* C23 (amended): under FCFS a process dispatched from the ready queue
\* became ready strictly before every process it leaves waiting, or at the
\* same time by an event that precedes theirs in the event order: an
\* Arrive before an Unblock, and the lower pid among events of one type.
C23_FCFSFifoByEventOrder ==
  [][ (sched.algorithm = "FCFS" /\ pc' = "loop" /\ Len(trace') > Len(trace)) =>
        \A r \in Procs :
          (DispatchedIn(r) /\ ~(Last(trace').type = "ARRIVE" /\ Last(trace').pid = r)) =>
            /\ running' = << r >>
            /\ \A n \in 1 .. Len(ready') :
                 LET er == ReadyEvent(r, trace')
                     eq == ReadyEvent(ready'[n], trace')
                 IN /\ er.time <= eq.time
                    /\ er.time = eq.time =>
                         \/ er.type = "ARRIVE" /\ eq.type = "UNBLOCK"
                         \/ er.type = eq.type /\ er.pid < eq.pid ]_vars

\* under FCFS a process that arrived while the processor was busy has been
\* dispatched ahead of a process with a lower pid that was unblocked at the
\* same clock and still waits
C23_Witness ==
  /\ sched.algorithm = "FCFS"
  /\ pc = "loop"
  /\ trace # << >>
  /\ \E r, q \in Procs :
       /\ running = << r >>
       /\ prevDispatchTime = Last(trace).time
       /\ Has(ready, q)
       /\ q < r
       /\ Processed(r, "UNBLOCK") = {}
       /\ Processed(q, "UNBLOCK") # {}
       /\ processes[r].lastTimeInReady = processes[q].lastTimeInReady
       /\ processes[r].startTime > processes[r].arriveTime

\* C24: under VRR and FEEDBACK no single dispatch lets a process hold the
\* processor for more than quantum ticks: the Block, Timeout or Exit
\* scheduled at a dispatch (Arrive while idle or from a queue) is later than
\* the dispatch by at least one and at most quantum ticks, and under VRR a
\* process dispatched with credit L > 0 runs at most L ticks.
C24_QuantumCap ==
  [][ (sched.algorithm \in {"VRR", "FEEDBACK"} /\ pc' = "loop") =>
        \A r \in Procs :
          DispatchedIn(r) =>
            /\ NextPending(r) # {}
            /\ \A e \in NextPending(r) :
                 /\ e.type \in {"BLOCK", "TIMEOUT", "EXIT"}
                 /\ e.time > Last(trace').time
                 /\ e.time - Last(trace').time <= sched.quantum
                 /\ (sched.algorithm = "VRR" /\ processes[r].leftOverProcessingTime > 0) =>
                      e.time - Last(trace').time <= processes[r].leftOverProcessingTime ]_vars

\* under VRR a process runs on credit: its burst was cut by a Timeout that
\* is due less than a quantum after the dispatch
C24_Witness ==
  /\ sched.algorithm = "VRR"
  /\ pc = "loop"
  /\ \E p \in Procs :
       /\ running = << p >>
       /\ prevDispatchTime = clock - 1
       /\ \E i \in Pending(p) :
            /\ eventQueue.queue[i].type = "TIMEOUT"
            /\ eventQueue.queue[i].time - prevDispatchTime < sched.quantum

\* C25: under every policy the remaining-burst sequence of a process is
\* empty exactly when the process has exited: non-empty in every state
\* before its Exit is processed, its final CPU burst included, and empty in
\* every state after.
C25_EmptyIffExited ==
  \A p \in Procs : (processes[p].activities = << >>) <=> Exited(p)

\* C25 (amended): a CPU burst is removed from the remaining-burst sequence
\* when it is dispatched in full, not when it completes.  The sequence is
\* empty in every state after the Exit of the process and already while
\* the process runs towards its Exit; it is non-empty while the process has
\* not arrived, waits in a ready queue, is blocked, or runs towards a
\* Timeout.  The one other state with an empty sequence is the failed run
\* of a single-burst process that was dispatched on arrival with a Block:
\* running towards that Block, then stopped in the Block handler.
C25_EmptyFromFinalDispatch ==
  \A p \in Procs :
    /\ Exited(p) => processes[p].activities = << >>
    /\ (running = << p >> /\ \E i \in Pending(p) : eventQueue.queue[i].type = "EXIT")
         => processes[p].activities = << >>
    /\ (running = << p >> /\ \E i \in Pending(p) : eventQueue.queue[i].type = "TIMEOUT")
         => processes[p].activities # << >>
    /\ (running = << p >> /\ Len(procFile[p].activities) > 1
          /\ \E i \in Pending(p) : eventQueue.queue[i].type = "BLOCK")
         => processes[p].activities # << >>
    /\ processes[p].activities = << >> =>
         \/ Exited(p)
         \/ running = << p >>
         \/ pc = "crash" /\ Has(blocked, p) /\ Len(procFile[p].activities) = 1

\* a process with two CPU bursts runs its final burst: the Exit is pending,
\* not yet processed, and the remaining-burst sequence is already empty
C25_Witness ==
  /\ pc = "loop"
  /\ \E p \in Procs :
       /\ running = << p >>
       /\ Len(procFile[p].activities) = 3
       /\ ~Exited(p)
       /\ \E i \in Pending(p) : eventQueue.queue[i].type = "EXIT"
       /\ processes[p].activities = << >>

\* the kind of the front of a remaining-burst sequence rem of the original
\* sequence orig: the positions 1, 3, 5, ... of orig are CPU bursts, the
\* others I/O bursts, and rem is what is left after Len(orig) - Len(rem)
\* bursts were removed from the front
FrontKind(orig, rem) ==
  IF (Len(orig) - Len(rem)) % 2 = 0 THEN "CPU" ELSE "IO"

\* C26: under every policy the front of a process's non-empty
\* remaining-burst sequence is a CPU burst right after every dispatch and
\* an I/O burst right after every Block.
C26_FrontKindAfterDispatchAndBlock ==
  [][ (pc' = "loop" /\ Len(trace') > Len(trace)) =>
        \A p \in Procs :
          processes'[p].activities # << >> =>
            /\ DispatchedIn(p) =>
                 FrontKind(procFile[p].activities, processes'[p].activities) = "CPU"
            /\ (Last(trace').type = "BLOCK" /\ Last(trace').pid = p) =>
                 FrontKind(procFile[p].activities, processes'[p].activities) = "IO" ]_vars

\* C26 (amended): each handler removes the burst it schedules the end of.
\* The front of a non-empty remaining-burst sequence is an I/O burst
\* exactly while the process runs towards a Block (the dispatch removed
\* the CPU burst), and a CPU burst in every other state: before arrival,
\* while waiting, while running towards a Timeout (the rest of the burst
\* under way) and while blocked (the Block handler removed the I/O burst).
C26_FrontKindByState ==
  \A p \in Procs :
    processes[p].activities # << >> =>
      IF running = << p >> /\ \E i \in Pending(p) : eventQueue.queue[i].type = "BLOCK"
        THEN FrontKind(procFile[p].activities, processes[p].activities) = "IO"
        ELSE FrontKind(procFile[p].activities, processes[p].activities) = "CPU"

\* a Block has just been processed: the process is blocked, its Unblock is
\* pending and the front of its remaining bursts is its next CPU burst
C26_Witness ==
  /\ pc = "loop"
  /\ trace # << >>
  /\ Last(trace).type = "BLOCK"
  /\ Has(blocked, Last(trace).pid)
  /\ \E i \in Pending(Last(trace).pid) : eventQueue.queue[i].type = "UNBLOCK"
  /\ Len(processes[Last(trace).pid].activities) = 1
  /\ FrontKind(procFile[Last(trace).pid].activities,
               processes[Last(trace).pid].activities) = "CPU"

\* the events of process p among the processed ones
ProcessedOf(p) == { i \in 1 .. Len(trace) : trace[i].pid = p }

\* C27: under every policy, between processing steps each process has at
\* most one pending event: exactly one while it has not arrived (its
\* ARRIVE), is running (a BLOCK, TIMEOUT or EXIT) or is blocked (its
\* UNBLOCK), and none while it waits in a ready or auxiliary queue or after
\* it has exited.  Every event is consumed exactly once: no event is
\* processed twice, no processed event is still pending, and the events of
\* a process, pending or processed, are its ARRIVE, one per dispatch and
\* one per Block.
C27_OnePendingEvent ==
  pc # "crash" =>
    /\ \A p \in Procs :
         /\ Cardinality(Pending(p)) <= 1
         /\ Processed(p, "ARRIVE") = {} =>
              /\ Cardinality(Pending(p)) = 1
              /\ \A i \in Pending(p) : eventQueue.queue[i].type = "ARRIVE"
         /\ Has(running, p) =>
              /\ Cardinality(Pending(p)) = 1
              /\ \A i \in Pending(p) :
                   eventQueue.queue[i].type \in {"BLOCK", "TIMEOUT", "EXIT"}
         /\ Has(blocked, p) =>
              /\ Cardinality(Pending(p)) = 1
              /\ \A i \in Pending(p) : eventQueue.queue[i].type = "UNBLOCK"
         /\ (p \in ReadyPids \/ Exited(p)) => Pending(p) = {}
         /\ Cardinality(Pending(p)) + Cardinality(ProcessedOf(p)) =
              1 + Dispatches(p) + Cardinality(Processed(p, "BLOCK"))
    /\ \A i, j \in 1 .. Len(trace) : trace[i] = trace[j] => i = j
    /\ \A i \in 1 .. Len(trace) : Count(eventQueue.queue, trace[i]) = 0

\* one process runs, one is blocked and one waits: two events are pending,
\* none of them for the waiting process
C27_Witness ==
  /\ pc = "loop"
  /\ Len(running) = 1
  /\ Len(blocked) = 1
  /\ Cardinality(ReadyPids) = 1
  /\ Len(eventQueue.queue) = 2
  /\ \A p \in ReadyPids : Pending(p) = {}

\* C28: under every policy, after each event has been fully processed
\* (transition plus dispatch) the processor is idle only if every ready
\* queue (FCFS ready, VRR ready and auxilary, every FEEDBACK level) is
\* empty; hence a process that arrives on an idle processor and is
\* dispatched at once overtakes nobody: no process was waiting.
C28_IdleOnlyIfNothingReady ==
  /\ []((pc # "crash" /\ running = << >>) => ReadyPids = {})
  /\ [][ (Len(trace') > Len(trace) /\ Last(trace').type = "ARRIVE"
            /\ DispatchedIn(Last(trace').pid)) =>
           /\ running = << >>
           /\ ReadyPids = {} ]_vars

\* the processor is idle and no process waits, while one process is blocked
\* and another has not arrived yet
C28_Witness ==
  /\ pc = "loop"
  /\ running = << >>
  /\ ReadyPids = {}
  /\ blocked # << >>
  /\ \E p \in Procs : Processed(p, "ARRIVE") = {}
  /\ trace # << >>

\* C29: under VRR, in every state the engine can be in once the scheduler
\* file is loaded, every process's leftover credit satisfies
\* 0 <= leftOverProcessingTime <= quantum - 1.
C29_CreditBelowQuantum ==
  (pc \notin {"load", "cfg_error"} /\ sched.algorithm = "VRR") =>
    \A p \in Procs :
      /\ processes[p].leftOverProcessingTime >= 0
      /\ processes[p].leftOverProcessingTime <= sched.quantum - 1

\* number of places (running, blocked, ready, auxilary, FEEDBACK levels)
\* that hold process p, counted with multiplicity
Places(p) ==
  Count(running, p) + Count(blocked, p)
    + (IF sched.algorithm = "FEEDBACK"
         THEN Cardinality(UNION { { << l, i >> : i \in { j \in 1 .. Len(ready[l]) :
                                                         ready[l][j] = p } } :
                                  l \in DOMAIN ready })
         ELSE Count(ready, p) + Count(auxilary, p))

\* C30: under every policy, in every reachable state each process that has
\* arrived and not exited is in exactly one of running, blocked or a ready
\* queue (ready, auxilary, one FEEDBACK level) and appears there exactly
\* once, and a process that has not arrived or has exited is in none; every
\* popped Block, Timeout or Exit event belongs to the process that is in
\* running when it is popped, and every popped Unblock to a process that is
\* in blocked.
C30_ExactlyOnePlace ==
  /\ [](\A p \in Procs :
          Places(p) = IF Processed(p, "ARRIVE") # {} /\ ~Exited(p) THEN 1 ELSE 0)
  /\ [][ Len(trace') > Len(trace) =>
           LET e == Last(trace') IN
             /\ e.type \in {"BLOCK", "TIMEOUT", "EXIT"} => running = << e.pid >>
             /\ e.type = "UNBLOCK" => Count(blocked, e.pid) = 1
             /\ e.type = "ARRIVE" => Places(e.pid) = 0 ]_vars

\* the last event was the Unblock of a process that now waits in a ready
\* queue, a second process runs and the third has exited
C30_Witness ==
  /\ pc = "loop"
  /\ trace # << >>
  /\ Last(trace).type = "UNBLOCK"
  /\ Last(trace).pid \in ReadyPids
  /\ \E p, q \in Procs \ {Last(trace).pid} :
       /\ p # q
       /\ Exited(p)
       /\ running = << q >>

====
